---- MODULE Spec2Model ----
(***************************************************************************)
(* Model of static/js/index.js: the selection state machine of the media   *)
(* explorer.  `state` and `dom` are the script's two objects; every        *)
(* handler (date click, thumbnail click, keydown, the two continuations of *)
(* selectDate and of main after their await) is one atomic action, since   *)
(* the page is single-threaded and a handler only yields at `await`.       *)
(* Times are integers in hundredths of a second.                           *)
(***************************************************************************)
EXTENDS Integers, Sequences, FiniteSets, TLC

VARIABLES state, dom, inflight, mainPending, latestOutcome, eventsDate,
          lastOp

vars == <<state, dom, inflight, mainPending, latestOutcome, eventsDate,
          lastOp>>

(* ------------------------------ bounds -------------------------------- *)

\* Longest event list the backend returns.
MaxEvents == 2
\* Most selectDate fetches awaiting their response at once.
MaxInFlight == 2

(* --------------------------- strings and files ------------------------ *)

\* A file name is the sequence of its characters.
UpperChars == <<"A","B","C","D","E","F","G","H","I","J","K","L","M",
                "N","O","P","Q","R","S","T","U","V","W","X","Y","Z">>
LowerChars == <<"a","b","c","d","e","f","g","h","i","j","k","l","m",
                "n","o","p","q","r","s","t","u","v","w","x","y","z">>

lowerChar(c) ==
    IF \E k \in 1..Len(UpperChars) : UpperChars[k] = c
    THEN LowerChars[CHOOSE k \in 1..Len(UpperChars) : UpperChars[k] = c]
    ELSE c

toLowerCase(s) == [k \in 1..Len(s) |-> lowerChar(s[k])]

endsWith(s, suffix) ==
    /\ Len(suffix) <= Len(s)
    /\ SubSeq(s, Len(s) - Len(suffix) + 1, Len(s)) = suffix

\* isImage without the lower-casing.
isImageCaseSensitive(file) == endsWith(file, <<".", "j", "p", "g">>)

isImage(file) == endsWith(toLowerCase(file), <<".", "j", "p", "g">>)

isVideo(file) == endsWith(toLowerCase(file), <<".", "m", "p", "4">>)

\* The files the backend's catalog holds: an image and a video in mixed
\* case, and a file that is neither.
Files == { <<"A", ".", "J", "P", "G">>,
           <<"b", ".", "M", "p", "4">>,
           <<"c", ".", "p", "n", "g">> }

\* File names to classify: every letter case of the two extensions and
\* extensions that only resemble them, after stems that are empty, plain,
\* or end in an extension themselves.
JpgExts == { <<".", j, p, g>> : j \in {"j", "J"}, p \in {"p", "P"},
                                g \in {"g", "G"} }
Mp4Exts == { <<".", m, p, "4">> : m \in {"m", "M"}, p \in {"p", "P"} }
OtherExts == { <<>>, <<".", "p", "n", "g">>, <<".", "j", "p", "e", "g">>,
               <<"j", "p", "g">>, <<".", "j", "p", "g", "x">>,
               <<".", "j", "p">>, <<".", "m", "p", "3">>,
               <<"m", "p", "4">>, <<".", "M", "P", "4", ".">> }
Stems == { <<>>, <<"A">>, <<"b">>, <<"c", ".", "J", "P", "G">>,
           <<"d", ".", "m", "p", "4">> }
ProbeNames == { stem \o ext : stem \in Stems,
                               ext \in JpgExts \cup Mp4Exts \cup OtherExts }

\* isImage and isVideo over these names, evaluated once.
ImageFiles == { f \in Files \cup ProbeNames : isImage(f) }
VideoFiles == { f \in Files \cup ProbeNames : isVideo(f) }

EventRecords == [file : Files, timestamp : {"t"}]

SeqsUpTo(S, n) == UNION { [1..k -> S] : k \in 0..n }

\* What GET /api/data may answer with a 2xx status: each event of a date
\* is a file of its own.
EventLists == { l \in SeqsUpTo(EventRecords, MaxEvents) :
                  \A a, b \in 1..Len(l) : l[a] = l[b] => a = b }

\* The date keys of the catalog, and what GET /api/list may answer.
\* (most recent first, as the backend sorts them).
AllDates == <<"2024-01-03", "2024-01-02">>
DateLists == { SubSeq(AllDates, 1, n) : n \in 0..Len(AllDates) }

(* ------------------------------ the DOM ------------------------------- *)

NoSrc == <<>>

\* <div class="date-item" data-date=date>
DateItem(date) == [date |-> date, active |-> FALSE]

\* <img class="event-item" data-index=index>, its src set by kind.
thumbSrc(file) ==
    LET s1 == IF file \in ImageFiles THEN <<"/data/", file>> ELSE NoSrc
    IN  IF file \in VideoFiles THEN <<"/thumbnail/", file>> ELSE s1

EventItem(event, index) ==
    [index |-> ToString(index), src |-> thumbSrc(event.file), active |-> FALSE]

\* Number(item.dataset.index) for the decimal strings the strip holds.
Number(str) == CHOOSE n \in 0..(MaxEvents + 1) : ToString(n) = str

\* The duration of every clip of the catalog.
VideoDuration == 51

ImgElem(file) ==
    [tag |-> "img", src |-> <<"/data/", file>>,
     paused |-> TRUE, currentTime |-> 0, duration |-> 0]

\* autoplay and muted: the element starts playing from 0.
VideoElem(file) ==
    [tag |-> "video", src |-> <<"/data/", file>>,
     paused |-> FALSE, currentTime |-> 0, duration |-> VideoDuration]

\* The page with the script's objects: w.state, w.dom, and what the
\* running handler threw (uncaught) or wrote to console.error.
World(st, d) == [state |-> st, dom |-> d, thrown |-> "none", logged |-> FALSE]

(* ------------------------------ rendering ----------------------------- *)

\* renderViewer that appends without emptying the pane first.
renderViewerAppend(w, event) ==
    LET w1 == IF event.file \in ImageFiles
              THEN [w EXCEPT !.dom.viewer = Append(@, ImgElem(event.file))]
              ELSE w
    IN  IF event.file \in VideoFiles
        THEN [w1 EXCEPT !.dom.viewer = Append(@, VideoElem(event.file))]
        ELSE w1

renderViewer(w, event) ==
    LET w1 == IF event.file \in ImageFiles
              THEN [w EXCEPT !.dom.viewer = <<ImgElem(event.file)>>]
              ELSE w
    IN  IF event.file \in VideoFiles
        THEN [w1 EXCEPT !.dom.viewer = <<VideoElem(event.file)>>]
        ELSE w1

\* renderThumbnails that numbers the nodes from 1.
renderThumbnailsFromOne(w) ==
    [w EXCEPT !.dom.events =
        [k \in 1..Len(w.state.events) |-> EventItem(w.state.events[k], k)]]

renderThumbnails(w) ==
    [w EXCEPT !.dom.events =
        [k \in 1..Len(w.state.events) |-> EventItem(w.state.events[k], k - 1)]]

\* selectEvent that marks the new thumbnail without unmarking the others.
selectEventKeepMarks(w, i) ==
    IF i < 0 \/ i >= Len(w.state.events)
    THEN w
    ELSE LET marked == IF i + 1 \in 1..Len(w.dom.events)
                       THEN [w.dom.events EXCEPT ![i + 1].active = TRUE]
                       ELSE w.dom.events
             w1 == [w EXCEPT !.state.index = i, !.dom.events = marked]
         IN  renderViewer(w1, w.state.events[i + 1])

\* selectEvent whose upper bound test is off by one (i > length): the
\* index one past the end is stored, and rendering events[length], which
\* is undefined, throws.
selectEventOffByOne(w, i) ==
    IF i < 0 \/ i > Len(w.state.events)
    THEN w
    ELSE LET cleared == [k \in 1..Len(w.dom.events) |->
                            [w.dom.events[k] EXCEPT !.active = FALSE]]
             marked  == IF i + 1 \in 1..Len(cleared)
                        THEN [cleared EXCEPT ![i + 1].active = TRUE]
                        ELSE cleared
             w1 == [w EXCEPT !.state.index = i, !.dom.events = marked]
         IN  IF i + 1 \in 1..Len(w.state.events)
             THEN renderViewer(w1, w.state.events[i + 1])
             ELSE [w1 EXCEPT !.thrown = "TypeError"]

selectEvent(w, i) ==
    IF i < 0 \/ i >= Len(w.state.events)
    THEN w
    ELSE LET cleared == [k \in 1..Len(w.dom.events) |->
                            [w.dom.events[k] EXCEPT !.active = FALSE]]
             marked  == IF i + 1 \in 1..Len(cleared)
                        THEN [cleared EXCEPT ![i + 1].active = TRUE]
                        ELSE cleared
             w1 == [w EXCEPT !.state.index = i, !.dom.events = marked]
         IN  renderViewer(w1, w.state.events[i + 1])

(* ------------------------------ selectDate ---------------------------- *)

\* markDate that also empties state.events until the fetch answers.
markDateClearEvents(w, date) ==
    LET cleared == [k \in 1..Len(w.dom.dates) |->
                       [w.dom.dates[k] EXCEPT !.active = FALSE]]
        hits == { k \in 1..Len(cleared) : cleared[k].date = date }
    IN  [w EXCEPT !.state.events = <<>>,
                  !.dom.dates =
            IF hits = {} THEN cleared
            ELSE [cleared EXCEPT ![CHOOSE k \in hits :
                                      \A j \in hits : k <= j].active = TRUE]]

\* Lines 40-49: move the active marker to the first item of that date.
markDate(w, date) ==
    LET cleared == [k \in 1..Len(w.dom.dates) |->
                       [w.dom.dates[k] EXCEPT !.active = FALSE]]
        hits == { k \in 1..Len(cleared) : cleared[k].date = date }
    IN  [w EXCEPT !.dom.dates =
            IF hits = {} THEN cleared
            ELSE [cleared EXCEPT ![CHOOSE k \in hits :
                                      \A j \in hits : k <= j].active = TRUE]]

\* A response: ok with the parsed JSON, or a failure (transport failure,
\* or a status that is not 2xx, which safeFetchJSON turns into a throw).
Responses == [ok : {TRUE}, json : EventLists] \cup [ok : {FALSE}, json : {<<>>}]

\* selectDateResume without the selection that follows renderThumbnails:
\* the index chosen for the previous list is kept.
selectDateResumeKeepIndex(w, resp) ==
    IF ~resp.ok
    THEN [w EXCEPT !.logged = TRUE]
    ELSE renderThumbnails([w EXCEPT !.state.events = resp.json])

\* selectDateResume that leaves the viewer as it is when the list is empty.
selectDateResumeKeepViewer(w, resp) ==
    IF ~resp.ok
    THEN [w EXCEPT !.logged = TRUE]
    ELSE LET w1 == renderThumbnails([w EXCEPT !.state.events = resp.json])
         IN  IF Len(w1.state.events) > 0
             THEN selectEvent(w1, 0)
             ELSE [w1 EXCEPT !.state.index = -1]

\* selectDateResume that takes a failed fetch for an empty event list.
selectDateResumeFailAsEmpty(w, resp) ==
    LET json == IF resp.ok THEN resp.json ELSE <<>>
        w1 == renderThumbnails([w EXCEPT !.state.events = json,
                                         !.logged = ~resp.ok])
    IN  IF Len(w1.state.events) > 0
        THEN selectEvent(w1, 0)
        ELSE [w1 EXCEPT !.dom.viewer = <<>>, !.state.index = -1]

\* selectDateResume that loads the list without selecting its first
\* event: the viewer is emptied and index is none for every list.
selectDateResumeNoAutoSelect(w, resp) ==
    IF ~resp.ok
    THEN [w EXCEPT !.logged = TRUE]
    ELSE LET w1 == renderThumbnails([w EXCEPT !.state.events = resp.json])
         IN  [w1 EXCEPT !.dom.viewer = <<>>, !.state.index = -1]

\* Lines 51-61: what runs when the awaited fetch settles.
selectDateResume(w, resp) ==
    IF ~resp.ok
    THEN [w EXCEPT !.logged = TRUE]
    ELSE LET w1 == renderThumbnails([w EXCEPT !.state.events = resp.json])
         IN  IF Len(w1.state.events) > 0
             THEN selectEvent(w1, 0)
             ELSE [w1 EXCEPT !.dom.viewer = <<>>, !.state.index = -1]

(* ------------------------------ keydown ------------------------------- *)

KeyCodes == {"ArrowRight", "ArrowLeft", "Space", "KeyJ", "KeyL", "KeyA"}

Max(a, b) == IF a >= b THEN a ELSE b
Min(a, b) == IF a <= b THEN a ELSE b

\* dom.viewer.querySelector('video'): position of the first video, or 0.
queryVideo(w) ==
    LET hits == { k \in 1..Len(w.dom.viewer) : w.dom.viewer[k].tag = "video" }
    IN  IF hits = {} THEN 0 ELSE CHOOSE k \in hits : \A j \in hits : k <= j

\* keydown whose arrow keys wrap around the ends of the list.
keydownWrap(w, code) ==
    IF Len(w.state.events) = 0
    THEN w
    ELSE LET video == queryVideo(w)
             n == Len(w.state.events) IN
         CASE code = "ArrowRight" -> selectEvent(w, (w.state.index + 1) % n)
           [] code = "ArrowLeft"  -> selectEvent(w, (w.state.index - 1 + n) % n)
           [] code = "Space" ->
                IF video = 0 THEN w
                ELSE [w EXCEPT !.dom.viewer[video].paused = ~@]
           [] code = "KeyJ" ->
                IF video = 0 THEN [w EXCEPT !.thrown = "TypeError"]
                ELSE [w EXCEPT !.dom.viewer[video].currentTime =
                                   Max(@ - 50, 1)]
           [] code = "KeyL" ->
                IF video = 0 THEN [w EXCEPT !.thrown = "TypeError"]
                ELSE [w EXCEPT !.dom.viewer[video].currentTime =
                                   Min(@ + 50,
                                       w.dom.viewer[video].duration - 1)]
           [] OTHER -> w

\* keydown whose KeyJ stops at 0 instead of 0.01.
keydownScrubToZero(w, code) ==
    IF Len(w.state.events) = 0
    THEN w
    ELSE LET video == queryVideo(w) IN
         CASE code = "ArrowRight" -> selectEvent(w, w.state.index + 1)
           [] code = "ArrowLeft"  -> selectEvent(w, w.state.index - 1)
           [] code = "Space" ->
                IF video = 0 THEN w
                ELSE [w EXCEPT !.dom.viewer[video].paused = ~@]
           [] code = "KeyJ" ->
                IF video = 0 THEN [w EXCEPT !.thrown = "TypeError"]
                ELSE [w EXCEPT !.dom.viewer[video].currentTime =
                                   Max(@ - 50, 0)]
           [] code = "KeyL" ->
                IF video = 0 THEN [w EXCEPT !.thrown = "TypeError"]
                ELSE [w EXCEPT !.dom.viewer[video].currentTime =
                                   Min(@ + 50,
                                       w.dom.viewer[video].duration - 1)]
           [] OTHER -> w

\* keydown whose Space only ever pauses.
keydownSpacePauses(w, code) ==
    IF Len(w.state.events) = 0
    THEN w
    ELSE LET video == queryVideo(w) IN
         CASE code = "ArrowRight" -> selectEvent(w, w.state.index + 1)
           [] code = "ArrowLeft"  -> selectEvent(w, w.state.index - 1)
           [] code = "Space" ->
                IF video = 0 THEN w
                ELSE [w EXCEPT !.dom.viewer[video].paused = TRUE]
           [] code = "KeyJ" ->
                IF video = 0 THEN [w EXCEPT !.thrown = "TypeError"]
                ELSE [w EXCEPT !.dom.viewer[video].currentTime =
                                   Max(@ - 50, 1)]
           [] code = "KeyL" ->
                IF video = 0 THEN [w EXCEPT !.thrown = "TypeError"]
                ELSE [w EXCEPT !.dom.viewer[video].currentTime =
                                   Min(@ + 50,
                                       w.dom.viewer[video].duration - 1)]
           [] OTHER -> w

keydown(w, code) ==
    IF Len(w.state.events) = 0
    THEN w
    ELSE LET video == queryVideo(w) IN
         CASE code = "ArrowRight" -> selectEvent(w, w.state.index + 1)
           [] code = "ArrowLeft"  -> selectEvent(w, w.state.index - 1)
           [] code = "Space" ->
                IF video = 0 THEN w
                ELSE [w EXCEPT !.dom.viewer[video].paused = ~@]
           [] code = "KeyJ" ->
                IF video = 0 THEN [w EXCEPT !.thrown = "TypeError"]
                ELSE [w EXCEPT !.dom.viewer[video].currentTime =
                                   Max(@ - 50, 1)]
           [] code = "KeyL" ->
                IF video = 0 THEN [w EXCEPT !.thrown = "TypeError"]
                ELSE [w EXCEPT !.dom.viewer[video].currentTime =
                                   Min(@ + 50,
                                       w.dom.viewer[video].duration - 1)]
           [] OTHER -> w

(* ------------------------------ the machine --------------------------- *)

\* inflight holds the selectDate calls awaiting their fetch, oldest first,
\* each with its date and whether it is the most recently invoked call;
\* latestOutcome tells how the fetch of the most recently invoked call
\* ended, and eventsDate the date whose fetch produced state.events.

\* What is mounted first in the viewer pane, and its playback position.
mountedTag(d) == IF Len(d.viewer) = 0 THEN "none" ELSE d.viewer[1].tag
mountedTime(d) == IF Len(d.viewer) = 0 THEN 0 ELSE d.viewer[1].currentTime

\* lastOp records the handler that ran last: which one, the key code,
\* the argument of its call of selectEvent (call is empty if it made none),
\* whether the fetch it resumed from had been superseded, what it threw
\* or logged, the index and the mounted element it started from, and
\* the playback position a key press started from.
Op(op, code, call, stale, w) ==
    [op |-> op, code |-> code, call |-> call, stale |-> stale,
     thrown |-> w.thrown, logged |-> w.logged,
     prevIndex |-> state.index, prevTag |-> mountedTag(dom),
     prevTime |-> IF op = "keydown" THEN mountedTime(dom) ELSE 0]

Init ==
    /\ state = [index |-> -1, events |-> <<>>]
    /\ dom = [dates |-> <<>>, events |-> <<>>, viewer |-> <<>>]
    /\ inflight = <<>>
    /\ mainPending = TRUE
    /\ latestOutcome = "none"
    /\ eventsDate = "none"
    /\ lastOp = [op |-> "init", code |-> "", call |-> {}, stale |-> FALSE,
                 thrown |-> "none", logged |-> FALSE,
                 prevIndex |-> -1, prevTag |-> "none", prevTime |-> 0]

\* selectDate up to its await: mark the date, send the request.  Every
\* request still in flight is superseded by the new one.
Invoke(w, date, op) ==
    \E w1 \in {markDate(w, date)} :
    /\ state' = w1.state
    /\ dom' = w1.dom
    /\ inflight' = Append([k \in 1..Len(inflight) |->
                              [inflight[k] EXCEPT !.latest = FALSE]],
                          [date |-> date, latest |-> TRUE])
    /\ latestOutcome' = "pending"
    /\ lastOp' = Op(op, "", {}, FALSE, w1)
    /\ UNCHANGED eventsDate

\* main after GET /api/list succeeded.
MainOk(dates) ==
    /\ mainPending
    /\ mainPending' = FALSE
    /\ LET w == World(state, [dom EXCEPT !.dates =
                        [k \in 1..Len(dates) |-> DateItem(dates[k])]])
       IN  IF Len(dates) > 0
           THEN Invoke(w, dates[1], "main")
           ELSE /\ state' = w.state
                /\ dom' = w.dom
                /\ lastOp' = Op("main", "", {}, FALSE, w)
                /\ UNCHANGED <<inflight, latestOutcome, eventsDate>>

\* main after GET /api/list failed.
MainFail ==
    /\ mainPending
    /\ mainPending' = FALSE
    /\ lastOp' = Op("main", "", {}, FALSE,
                    [World(state, dom) EXCEPT !.logged = TRUE])
    /\ UNCHANGED <<state, dom, inflight, latestOutcome, eventsDate>>

\* A click in the date list on item k (0: not on an item).
DateClick(k) ==
    /\ k \in 0..Len(dom.dates)
    /\ UNCHANGED mainPending
    /\ IF k = 0
       THEN /\ lastOp' = Op("dateClick", "", {}, FALSE, World(state, dom))
            /\ UNCHANGED <<state, dom, inflight, latestOutcome, eventsDate>>
       ELSE /\ Len(inflight) < MaxInFlight
            /\ Invoke(World(state, dom), dom.dates[k].date, "dateClick")

RemoveAt(s, k) == [j \in 1..(Len(s) - 1) |-> IF j < k THEN s[j] ELSE s[j + 1]]

\* The fetch of request k settles with resp and selectDate resumes.
FetchDone(k, resp) ==
    /\ k \in 1..Len(inflight)
    /\ \E w \in {selectDateResume(World(state, dom), resp)},
          call \in {IF resp.ok /\ Len(resp.json) > 0 THEN {0} ELSE {}} :
           /\ state' = w.state
           /\ dom' = w.dom
           /\ lastOp' = Op(IF resp.ok THEN "fetchOk" ELSE "fetchFail",
                           "", call, ~inflight[k].latest, w)
    /\ inflight' = RemoveAt(inflight, k)
    /\ latestOutcome' = IF inflight[k].latest
                        THEN (IF resp.ok THEN "ok" ELSE "failed")
                        ELSE latestOutcome
    /\ eventsDate' = IF resp.ok THEN inflight[k].date ELSE eventsDate
    /\ UNCHANGED mainPending

\* A click in the thumbnail strip on node k (0: not on a node).
ThumbClick(k) ==
    /\ k \in 0..Len(dom.events)
    /\ \E call \in {IF k = 0 THEN {} ELSE {Number(dom.events[k].index)}} :
       \E w \in {IF k = 0 THEN World(state, dom)
                 ELSE selectEvent(World(state, dom),
                                  Number(dom.events[k].index))} :
           /\ state' = w.state
           /\ dom' = w.dom
           /\ lastOp' = Op("thumbClick", "", call, FALSE, w)
    /\ UNCHANGED <<inflight, mainPending, latestOutcome, eventsDate>>

\* A key press anywhere in the document.
Keydown(code) ==
    /\ code \in KeyCodes
    /\ \E w \in {keydown(World(state, dom), code)},
          call \in {IF Len(state.events) = 0 THEN {}
                   ELSE IF code = "ArrowRight" THEN {state.index + 1}
                   ELSE IF code = "ArrowLeft" THEN {state.index - 1}
                   ELSE {}} :
           /\ state' = w.state
           /\ dom' = w.dom
           /\ lastOp' = Op("keydown", code, call, FALSE, w)
    /\ UNCHANGED <<inflight, mainPending, latestOutcome, eventsDate>>

Next ==
    \/ \E dates \in DateLists : MainOk(dates)
    \/ MainFail
    \/ \E k \in 0..2 : DateClick(k)
    \/ \E k \in 1..MaxInFlight, resp \in Responses : FetchDone(k, resp)
    \/ \E k \in 0..MaxEvents : ThumbClick(k)
    \/ \E code \in KeyCodes : Keydown(code)

Spec == Init /\ [][Next]_vars

(* ------------------------------ classification ----------------------- *)

\* The page once main has listed one date and selectDate awaits its
\* events.
InitClassify ==
    /\ \E w \in {markDate(World([index |-> -1, events |-> <<>>],
                                 [dates |-> <<DateItem(AllDates[1])>>,
                                  events |-> <<>>, viewer |-> <<>>]),
                           AllDates[1])} :
          state = w.state /\ dom = w.dom
    /\ inflight = <<[date |-> AllDates[1], latest |-> TRUE]>>
    /\ mainPending = FALSE
    /\ latestOutcome = "pending"
    /\ eventsDate = "none"
    /\ lastOp = [op |-> "main", code |-> "", call |-> {}, stale |-> FALSE,
                 thrown |-> "none", logged |-> FALSE,
                 prevIndex |-> -1, prevTag |-> "none", prevTime |-> 0]

\* The date's only event is a file of any of the names; the date is
\* clicked again to load it anew.
NextClassify ==
    \/ \E name \in ProbeNames :
          FetchDone(1, [ok |-> TRUE,
                        json |-> <<[file |-> name, timestamp |-> "t"]>>])
    \/ DateClick(1)

SpecClassify == InitClassify /\ [][NextClassify]_vars

(* ------------------------------ scrubbing ----------------------------- *)

\* Clip durations: the shortest ones, the catalog's, and ten seconds.
Durations == {1, 2, 3, VideoDuration, 1000}

\* The page once a date with one clip is loaded (main and selectDate have
\* run to their end), the clip of duration d playing at position p.
ClipLoaded(d, p) ==
    LET clip == CHOOSE f \in Files : isVideo(f)
        w0 == World([index |-> -1, events |-> <<>>],
                    [dates |-> <<DateItem(AllDates[1])>>,
                     events |-> <<>>, viewer |-> <<>>])
        w1 == selectDateResume(markDate(w0, AllDates[1]),
                  [ok |-> TRUE,
                   json |-> <<[file |-> clip, timestamp |-> "t"]>>])
    IN  [w1 EXCEPT !.dom.viewer[1].duration = d,
                   !.dom.viewer[1].currentTime = p]

InitScrub ==
    /\ \E d \in Durations : \E p \in 0..d :
          /\ state = ClipLoaded(d, p).state
          /\ dom = ClipLoaded(d, p).dom
    /\ inflight = <<>>
    /\ mainPending = FALSE
    /\ latestOutcome = "ok"
    /\ eventsDate = AllDates[1]
    /\ lastOp = [op |-> "init", code |-> "", call |-> {}, stale |-> FALSE,
                 thrown |-> "none", logged |-> FALSE,
                 prevIndex |-> -1, prevTag |-> "none", prevTime |-> 0]

NextScrub == \E code \in {"KeyJ", "KeyL"} : Keydown(code)

SpecScrub == InitScrub /\ [][NextScrub]_vars

(* ------------------------------ properties ---------------------------- *)

\* C1: the result of a superseded selectDate is discarded when it
\* arrives: a fetch that resolves successfully after a later selectDate
\* was invoked changes neither events nor index.
C1_StaleResultDiscarded ==
    [][(lastOp'.op = "fetchOk" /\ lastOp'.stale) => state' = state]_vars

\* C2: selectDate(d1), then selectDate(d2), the fetch of d2 succeeds and
\* the fetch of d1 succeeds after it: events remain the list of d2, that
\* is, the late success of d1 leaves events as the success of d2 set them.
C2_RaceKeepsLatestEvents ==
    [][(/\ lastOp'.op = "fetchOk"
        /\ lastOp'.stale
        /\ latestOutcome = "ok"
        /\ Len(inflight) = 1) => state'.events = state.events]_vars

\* C3: index is none (-1) or a valid offset into events, in every state.
C3_IndexValid ==
    state.index = -1 \/ (0 <= state.index /\ state.index < Len(state.events))

\* C3 witness: a fetch replaced events by a shorter, non-empty list while
\* the index selected before lay beyond the new list's end.
C3_Witness ==
    /\ lastOp.op = "fetchOk"
    /\ Len(state.events) > 0
    /\ lastOp.prevIndex >= Len(state.events)

\* The viewer pane holds one element and it plays or displays that event.
ViewerShows(event) ==
    /\ Len(dom.viewer) = 1
    /\ dom.viewer[1].src = <<"/data/", event.file>>

\* The positions of the thumbnails that carry the active marker.
ActiveThumbs == { k \in 1..Len(dom.events) : dom.events[k].active }

\* C4: after a fetch that succeeded with a non-empty list, index is 0 and
\* the viewer shows events[0], whatever was selected and mounted before.
C4_NonEmptySelectsFirst ==
    (lastOp.op = "fetchOk" /\ Len(state.events) > 0)
        => (state.index = 0 /\ ViewerShows(state.events[1]))

\* C5: after a fetch that succeeded with an empty list, events is empty,
\* index is none, the strip has no thumbnail and the viewer is empty.
C5_EmptyClearsSelection ==
    (lastOp.op = "fetchOk" /\ lastOp.call = {})
        => /\ state.events = <<>>
           /\ state.index = -1
           /\ dom.events = <<>>
           /\ dom.viewer = <<>>

\* C5 witness: an empty list arrived while an event was selected and an
\* element was mounted in the viewer.
C5_Witness ==
    /\ lastOp.op = "fetchOk"
    /\ lastOp.call = {}
    /\ lastOp.prevIndex >= 0
    /\ lastOp.prevTag # "none"

\* i is an offset into the events the last handler left.
Valid(i) == 0 <= i /\ i < Len(state.events)

\* C6: after selectEvent(i) with 0 <= i < len(events), index is i and
\* the thumbnail at position i, and no other, carries the active marker.
C6_SelectEventMarksOne ==
    \A i \in lastOp.call :
        Valid(i) => (state.index = i /\ ActiveThumbs = {i + 1})

\* C6 witness: a click on the second thumbnail while the first was
\* selected.
C6_Witness ==
    /\ lastOp.op = "thumbClick"
    /\ lastOp.call = {1}
    /\ lastOp.prevIndex = 0
    /\ Len(state.events) >= 2

\* C7: selectEvent(i) with i < 0 or i >= len(events) changes nothing and
\* throws nothing: in every reachable state for every such i, and in
\* every handler that makes such a call.
C7_OutOfRangeNoOp ==
    /\ [](\A i \in -2..(MaxEvents + 2) :
            (i < 0 \/ i >= Len(state.events))
                => selectEvent(World(state, dom), i) = World(state, dom))
    /\ [][(\E i \in lastOp'.call : i < 0 \/ i >= Len(state'.events))
              => (/\ state' = state
                  /\ dom' = dom
                  /\ lastOp'.thrown = "none")]_vars

\* C7 witness: ArrowLeft on the first event called selectEvent(-1).
C7_Witness ==
    /\ lastOp.op = "keydown"
    /\ lastOp.code = "ArrowLeft"
    /\ lastOp.call = {-1}
    /\ state.index = 0

\* C8: ArrowRight on the last event and ArrowLeft on the first change
\* nothing, and an arrow key never moves the index against its direction
\* (no wraparound).
C8_StepStopsAtEnds ==
    [][lastOp'.op = "keydown" =>
         /\ (lastOp'.code = "ArrowRight"
                /\ state.index = Len(state.events) - 1)
               => (state' = state /\ dom' = dom)
         /\ (lastOp'.code = "ArrowLeft" /\ state.index = 0)
               => (state' = state /\ dom' = dom)
         /\ lastOp'.code = "ArrowRight" => state'.index >= state.index
         /\ lastOp'.code = "ArrowLeft" => state'.index <= state.index]_vars

\* C8 witness: ArrowRight pressed on the last of two or more events.
C8_Witness ==
    /\ lastOp.op = "keydown"
    /\ lastOp.code = "ArrowRight"
    /\ Len(state.events) >= 2
    /\ lastOp.call = {Len(state.events)}
    /\ state.index = Len(state.events) - 1

\* C9: a fetch that fails leaves events, index, the thumbnails and the
\* viewer as they were, and throws nothing out of selectDate (the failure
\* is caught and logged), so the handlers go on from the prior state.
C9_FailureKeepsState ==
    [][lastOp'.op = "fetchFail" =>
         /\ state' = state
         /\ dom' = dom
         /\ lastOp'.thrown = "none"
         /\ lastOp'.logged]_vars

\* C9 witness: a fetch failed while an event was selected and mounted.
C9_Witness ==
    /\ lastOp.op = "fetchFail"
    /\ lastOp.logged
    /\ state.index >= 0
    /\ dom.viewer # <<>>

\* C10: rendering an event whose file is neither .jpg nor .mp4 is
\* rejected and the failure surfaces: it is thrown or logged.
C10_UnsupportedRejected ==
    \A i \in lastOp.call :
        (/\ Valid(i)
         /\ ~isImage(state.events[i + 1].file)
         /\ ~isVideo(state.events[i + 1].file))
            => (lastOp.thrown # "none" \/ lastOp.logged)

\* A video is mounted in the viewer pane.
VideoMounted == queryVideo(World(state, dom)) # 0

\* C11: KeyJ and KeyL pressed while no video is mounted change nothing
\* and throw nothing.
C11_ScrubWithoutVideoNoOp ==
    [][(/\ lastOp'.op = "keydown"
        /\ lastOp'.code \in {"KeyJ", "KeyL"}
        /\ ~VideoMounted)
          => (/\ state' = state
              /\ dom' = dom
              /\ lastOp'.thrown = "none")]_vars

\* C12: Space flips a mounted video between paused and playing and
\* changes nothing else; with no video mounted it changes nothing; it
\* never throws.
C12_SpaceTogglesPlayback ==
    [][(lastOp'.op = "keydown" /\ lastOp'.code = "Space") =>
         /\ state' = state
         /\ lastOp'.thrown = "none"
         /\ IF VideoMounted
            THEN dom' = [dom EXCEPT !.viewer[1].paused = ~dom.viewer[1].paused]
            ELSE dom' = dom]_vars

\* C12 witness: Space resumed a video that had been paused.
C12_Witness ==
    /\ lastOp.op = "keydown"
    /\ lastOp.code = "Space"
    /\ lastOp.prevTag = "video"
    /\ VideoMounted
    /\ ~dom.viewer[1].paused

\* The position a scrub key asks for: half a second back or forth.
Scrubbed == [KeyJ |-> mountedTime(dom) - 50, KeyL |-> mountedTime(dom) + 50]

\* The last key press was a scrub ("KeyJ" or "KeyL") of a mounted video.
ScrubStep(code) ==
    /\ lastOp'.op = "keydown"
    /\ lastOp'.code = code
    /\ VideoMounted

\* C13 as claimed: after a scrub the position lies in
\* [0.01, duration - 0.01], for every position and duration.
C13_ScrubWithinInterval ==
    [][\A code \in {"KeyJ", "KeyL"} : ScrubStep(code) =>
         /\ mountedTime(dom') >= 1
         /\ mountedTime(dom') <= dom.viewer[1].duration - 1]_vars

\* C13 amended: for a duration of at least 0.02 s a scrub sets the
\* position to position + delta clamped into [0.01, duration - 0.01]
\* and changes nothing else; at duration 10.00, KeyJ from 0.05 yields
\* 0.01 and KeyL from 9.99 yields 9.99.
C13_ScrubClamps ==
    [][\A code \in {"KeyJ", "KeyL"} :
         (ScrubStep(code) /\ dom.viewer[1].duration >= 2) =>
           LET d == dom.viewer[1].duration
               new == Min(Max(Scrubbed[code], 1), d - 1)
           IN  /\ dom' = [dom EXCEPT !.viewer[1].currentTime = new]
               /\ state' = state
               /\ new >= 1 /\ new <= d - 1
               /\ (d = 1000 /\ mountedTime(dom) = 5 /\ code = "KeyJ")
                     => mountedTime(dom') = 1
               /\ (d = 1000 /\ mountedTime(dom) = 999 /\ code = "KeyL")
                     => mountedTime(dom') = 999]_vars

\* C13 witness: KeyJ at 0.05 s of a ten second clip left the position
\* at 0.01 s.
C13_Witness ==
    /\ lastOp.op = "keydown"
    /\ lastOp.code = "KeyJ"
    /\ lastOp.prevTime = 5
    /\ VideoMounted
    /\ dom.viewer[1].duration = 1000
    /\ dom.viewer[1].currentTime = 1

\* The name's last four characters are one of these extensions.
EndsIn(name, exts) ==
    Len(name) >= 4 /\ SubSeq(name, Len(name) - 3, Len(name)) \in exts

\* C14: a file whose name ends in .jpg in any letter case is an image and
\* no video, one whose name ends in .mp4 in any letter case is a video and
\* no image, any other file is neither; the thumbnail's source follows
\* the same classification.
C14_ClassifiedByExtension ==
    \A k \in 1..Len(state.events) :
        LET name == state.events[k].file
            src == dom.events[k].src
        IN  /\ EndsIn(name, JpgExts)
                  => (isImage(name) /\ ~isVideo(name)
                        /\ src = <<"/data/", name>>)
            /\ EndsIn(name, Mp4Exts)
                  => (isVideo(name) /\ ~isImage(name)
                        /\ src = <<"/thumbnail/", name>>)
            /\ (~EndsIn(name, JpgExts) /\ ~EndsIn(name, Mp4Exts))
                  => (~isImage(name) /\ ~isVideo(name) /\ src = NoSrc)

\* C14 witness: "A.JPG" was loaded and is mounted as an image.
C14_Witness ==
    /\ lastOp.op = "fetchOk"
    /\ Len(state.events) = 1
    /\ state.events[1].file = <<"A", ".", "J", "P", "G">>
    /\ mountedTag(dom) = "img"
    /\ dom.viewer[1].src = <<"/data/", <<"A", ".", "J", "P", "G">>>>

\* C15: the viewer follows the selection: it is empty when index is none
\* and shows events[index], and no other event, otherwise.
C15_ViewerFollowsSelection ==
    IF state.index = -1
    THEN dom.viewer = <<>>
    ELSE ViewerShows(state.events[state.index + 1])

\* The dates of the items that carry the active marker, one per item.
ActiveDates == { <<k, dom.dates[k].date>> :
                   k \in { j \in 1..Len(dom.dates) : dom.dates[j].active } }

\* C16: with no fetch in flight and events produced by some fetch, one
\* date item is active and it is the date whose fetch produced events.
C16_ActiveDateIsEventsDate ==
    (inflight = <<>> /\ eventsDate # "none")
        => \E k \in 1..Len(dom.dates) : ActiveDates = {<<k, eventsDate>>}

\* The source a thumbnail of that file has: the raw file for an image,
\* the thumbnail endpoint for a video, none otherwise.
SrcOf(file) ==
    IF file \in ImageFiles THEN <<"/data/", file>>
    ELSE IF file \in VideoFiles THEN <<"/thumbnail/", file>>
    ELSE NoSrc

\* C17: the strip mirrors events: one node per event, node k carrying
\* index k and the source of events[k]; and a click on node k selects
\* offset k of the list held in state, which the click leaves as it is.
C17_StripMirrorsEvents ==
    /\ [](/\ Len(dom.events) = Len(state.events)
          /\ \A k \in 1..Len(dom.events) :
                /\ Number(dom.events[k].index) = k - 1
                /\ dom.events[k].src = SrcOf(state.events[k].file))
    /\ [][lastOp'.op = "thumbClick" =>
            /\ state'.events = state.events
            /\ \A i \in lastOp'.call :
                  /\ i >= 0 /\ i < Len(state.events)
                  /\ state'.index = i]_vars

\* C17 witness: the second date's list is loaded and a click on its
\* second node selected its second event.
C17_Witness ==
    /\ lastOp.op = "thumbClick"
    /\ lastOp.call = {1}
    /\ eventsDate = AllDates[2]
    /\ Len(dom.events) = 2
    /\ state.index = 1

\* The thumbnail nodes of a DOM, without their active markers.
Nodes(d) == [k \in 1..Len(d.events) |->
                [index |-> d.events[k].index, src |-> d.events[k].src]]

\* C18: only the successful completion of a selectDate fetch changes
\* events or the thumbnail nodes: clicks, key presses, failed fetches and
\* the invocation of selectDate leave both as they are.
C18_OnlyFetchChangesEvents ==
    [][lastOp'.op # "fetchOk" =>
         /\ state'.events = state.events
         /\ Nodes(dom') = Nodes(dom)]_vars

\* C18 witness: with a fetch in flight, ArrowRight stepped from the first
\* to the second event of the list loaded before.
C18_Witness ==
    /\ lastOp.op = "keydown"
    /\ lastOp.code = "ArrowRight"
    /\ inflight # <<>>
    /\ lastOp.prevIndex = 0
    /\ state.index = 1
    /\ ActiveThumbs = {2}

\* C19: the viewer never holds two elements, an image element always
\* points at an image file and a video element at a video file, and
\* after an Image or Video event was rendered the viewer holds exactly
\* the one new element of that event: img for Image, video for Video.
C19_OneElementOfTheKind ==
    /\ Len(dom.viewer) <= 1
    /\ \A k \in 1..Len(dom.viewer) :
          LET e == dom.viewer[k] IN
          /\ e.src[1] = "/data/"
          /\ e.tag = "img" => (isImage(e.src[2]) /\ ~isVideo(e.src[2]))
          /\ e.tag = "video" => (isVideo(e.src[2]) /\ ~isImage(e.src[2]))
    /\ \A i \in lastOp.call : Valid(i) =>
          LET file == state.events[i + 1].file IN
          /\ isImage(file) => dom.viewer = <<ImgElem(file)>>
          /\ isVideo(file) => dom.viewer = <<VideoElem(file)>>

\* C19 witness: a video event was rendered while an image was mounted.
C19_Witness ==
    /\ lastOp.call # {}
    /\ lastOp.prevTag = "img"
    /\ Len(dom.viewer) = 1
    /\ dom.viewer[1].tag = "video"

\* C20: index is none exactly when events is empty, in every state; and
\* a key pressed while index is none changes nothing and throws nothing.
C20_NoneIffEmpty ==
    /\ [](state.index = -1 <=> state.events = <<>>)
    /\ [][(lastOp'.op = "keydown" /\ state.index = -1)
              => (/\ state' = state
                  /\ dom' = dom
                  /\ lastOp'.thrown = "none")]_vars

\* C20 witness: a date with no events is loaded, index is none, and KeyJ
\* was pressed.
C20_Witness ==
    /\ lastOp.op = "keydown"
    /\ lastOp.code = "KeyJ"
    /\ eventsDate # "none"
    /\ state.events = <<>>
    /\ state.index = -1

====
